---- MODULE Spec2Model ----
(***************************************************************************)
(* Session manager of the wake plugin (plugins/wake/sessions.ts): spawn,   *)
(* kill, stdout/exit/error observers, WebSocket relay, polling, shutdown.  *)
(*                                                                         *)
(* The manager runs on the Node event loop: every action below is one      *)
(* callback or one synchronous stretch of an async function, run to        *)
(* completion.  spawnSession is split at its only await (getNgrokUrl).     *)
(*                                                                         *)
(* Session objects live in `heap`, indexed by the spawnSession call that   *)
(* created them; `sessions` is the Map from session id to object.          *)
(* Callbacks close over the session id (a Map lookup at run time), the     *)
(* WebSocket close handler and the kill timer close over the object.       *)
(***************************************************************************)
EXTENDS Integers, Sequences, FiniteSets, TLC

\* ------------------------------------------------------------------ bounds
MaxCalls   == 2   \* spawnSession calls issued
MaxIds     == 2   \* size of the id space generateSessionId draws from
MaxClients == 2   \* WebSocket connections
MaxEvents  == 3   \* inputs from outside: stdout lines, process ends and
                  \* errors, kill and poll requests, peer closes, signals
MaxLimit   == 2   \* largest configured maxConcurrentSessions
MaxShortLen == 40  \* tool inputs of length 0..MaxShortLen, and as many
                   \* lengths on either side of the truncation length

Calls   == 1..MaxCalls
Ids     == 1..MaxIds
Clients == 1..MaxClients

\* ----------------------------------------------------------------- strings
\* A string is a sequence of one-character strings; the elision marker is a
\* sequence of three tokens.
EmptyStr == <<>>

\* variant of truncate whose marker states the number of characters kept
truncateStatesKept(str, maxLen) ==
    IF str = <<>> THEN <<>>
    ELSE IF Len(str) <= maxLen THEN str
    ELSE SubSeq(str, 1, maxLen)
           \o <<"\n... (truncated, ", ToString(maxLen), " more chars)">>

\* src/unnamed/part_008:46-50
truncate(str, maxLen) ==
    IF str = EmptyStr THEN EmptyStr
    ELSE IF Len(str) <= maxLen THEN str
    ELSE SubSeq(str, 1, maxLen)
           \o <<"\n... (truncated, ", ToString(Len(str) - maxLen), " more chars)">>

DefaultMaxLen == 2000
ResultMaxLen  == 4000

\* -------------------------------------------------------------- JSON values
\* What JSON.parse can give for one stdout line.  `has` is the set of the
\* optional members that are present (a member not in `has` is undefined).
JsonNull == [kind |-> "null", type |-> "", subtype |-> "", has |-> {},
             content |-> <<>>, result |-> EmptyStr, error |-> EmptyStr,
             duration_ms |-> 0, total_cost_usd |-> 0]

JsonNumber == [JsonNull EXCEPT !.kind = "number"]

JsonObject(type, subtype) ==
    [JsonNull EXCEPT !.kind = "object", !.type = type, !.subtype = subtype]

\* content blocks of a message
TextBlock(text) ==
    [type |-> "text", text |-> text, name |-> EmptyStr, input |-> EmptyStr,
     inputKind |-> "undefined", content |-> EmptyStr]
ToolUseBlock(name, inputKind, input) ==
    [type |-> "tool_use", text |-> EmptyStr, name |-> name, input |-> input,
     inputKind |-> inputKind, content |-> EmptyStr]
ToolResultBlock(content) ==
    [type |-> "tool_result", text |-> EmptyStr, name |-> EmptyStr,
     input |-> EmptyStr, inputKind |-> "undefined", content |-> content]

Hi   == <<"h", "i">>
Bash == <<"B", "a", "s", "h">>
Ls   == <<"l", "s">>
Ok   == <<"o", "k">>
Boom == <<"b", "o", "o", "m">>

SystemInit == JsonObject("system", "init")
AssistantMsg ==
    [JsonObject("assistant", "") EXCEPT
        !.has = {"message"},
        !.content = <<TextBlock(Hi), ToolUseBlock(Bash, "string", Ls)>>]
UserMsg ==
    [JsonObject("user", "") EXCEPT
        !.has = {"message"}, !.content = <<ToolResultBlock(Ok)>>]
ResultSuccess ==
    [JsonObject("result", "success") EXCEPT
        !.has = {"result", "duration_ms", "total_cost_usd"},
        !.result = Ok, !.duration_ms = 7, !.total_cost_usd = 1]
ResultError ==
    [JsonObject("result", "error_during_execution") EXCEPT
        !.has = {"error"}, !.error = Boom]
ResultErrorNoText == JsonObject("result", "error_max_turns")

\* Stdout lines the child can print.  "garbage" is not JSON; "null" and "42"
\* are JSON but not objects; "asst" and "asst " differ only in white space.
AllLines == {"garbage", "null", "42", "sys", "asst", "asst ", "user",
             "resOk", "resErr", "resErr2"}
\* the lines the processes of the state machine print
StdoutLines == {"garbage", "null", "asst ", "resOk", "resErr", "resErr2"}

ParseFails(line) == line = "garbage"

\* JSON.parse, src/unnamed/part_008:628
JSONparse(line) ==
    CASE line = "null"    -> JsonNull
      [] line = "42"      -> JsonNumber
      [] line = "sys"     -> SystemInit
      [] line = "asst"    -> AssistantMsg
      [] line = "asst "   -> AssistantMsg
      [] line = "user"    -> UserMsg
      [] line = "resOk"   -> ResultSuccess
      [] line = "resErr"  -> ResultError
      [] line = "resErr2" -> ResultErrorNoText

\* JSON.stringify of a parsed value gives the canonical text of the value.
JSONstringify(v) ==
    CASE v = JsonNull          -> "null"
      [] v = JsonNumber        -> "42"
      [] v = SystemInit        -> "sys"
      [] v = AssistantMsg      -> "asst"
      [] v = UserMsg           -> "user"
      [] v = ResultSuccess     -> "resOk"
      [] v = ResultError       -> "resErr"
      [] v = ResultErrorNoText -> "resErr2"

\* Reading a property of null throws a TypeError; of a number it is undefined.
PropThrows(v) == v.kind = "null"

\* ------------------------------------------------------------ normalization
\* src/unnamed/part_008:63-77, one content item of an assistant record
NormalizeAssistantItem(item) ==
    (IF item.type = "text" /\ item.text # EmptyStr
       THEN <<[type |-> "assistant", text |-> item.text]>> ELSE <<>>)
    \o
    (IF item.type = "tool_use" /\ item.name # EmptyStr
       THEN <<[type |-> "tool_use", tool |-> item.name,
               input |-> truncate(item.input, DefaultMaxLen)]>>
       ELSE <<>>)

\* src/unnamed/part_008:84-91, one content item of a user record
NormalizeUserItem(item) ==
    IF item.type = "tool_result"
      THEN <<[type |-> "tool_result",
              output |-> truncate(item.content, DefaultMaxLen)]>>
      ELSE <<>>

RECURSIVE FlatMap(_, _)
FlatMap(Op(_), seq) ==
    IF seq = <<>> THEN <<>> ELSE Op(Head(seq)) \o FlatMap(Op, Tail(seq))

\* variant of Completion that does not truncate the result text
CompletionUntruncated(raw) ==
    [type |-> "complete",
     result |-> raw.result,
     has |-> raw.has \cap {"duration_ms", "total_cost_usd"},
     duration_ms |-> raw.duration_ms,
     cost |-> raw.total_cost_usd]

\* src/unnamed/part_008:96-101: the completion event of a result record.
\* `has` tells which of duration_ms and cost are defined.
Completion(raw) ==
    [type |-> "complete",
     result |-> truncate(raw.result, ResultMaxLen),
     has |-> raw.has \cap {"duration_ms", "total_cost_usd"},
     duration_ms |-> raw.duration_ms,
     cost |-> raw.total_cost_usd]

\* src/unnamed/part_008:52-105 (defined for values whose properties can be read)
normalizeEvent(raw) ==
    IF raw.type = "system" THEN <<>>
    ELSE
      (IF raw.type = "assistant" /\ "message" \in raw.has
         THEN FlatMap(NormalizeAssistantItem, raw.content) ELSE <<>>)
      \o
      (IF raw.type = "user" /\ "message" \in raw.has
         THEN FlatMap(NormalizeUserItem, raw.content) ELSE <<>>)
      \o
      (IF raw.type = "result"
         THEN <<Completion(raw)>>
         ELSE <<>>)

\* ------------------------------------------------------------------- state
VARIABLES
    maxConcurrentSessions, \* config.maxConcurrentSessions
    cachedNgrokUrl,        \* module-level cache, "null" or a URL
    sessions,              \* the Map: session id -> session object (0: no entry)
    heap,                  \* session objects, by the call that created them
    pc,                    \* position of each spawnSession call
    call,                  \* arguments, locals and return value of each call
    proc,                  \* the child process of each call
    timer,                 \* the timeout timer of each call
    killTimers,            \* pending SIGKILL escalation timers, by object
    ws,                    \* WebSocket connections
    used,                  \* how many inputs from outside were taken
    bcast,                 \* history: server notifications broadcast, by object
    killRets,              \* history: return values of killSession, by object
    resp,                  \* the response of the tool call handled in the last step
    early,                 \* the error value a spawnSession call returned in the last step
    emitted,               \* history: the values the line reader handed to
                           \* handleEvent, by the object they were for
    console,               \* what the step before wrote to the console
    rawRecord,             \* the argument of a normalizeEvent call
    normalized             \* what the call returned

vars == <<maxConcurrentSessions, cachedNgrokUrl, sessions, heap, pc, call,
          proc, timer, killTimers, ws, used, bcast, killRets, resp, early, emitted,
          console, rawRecord, normalized>>

NullUrl   == "null"
TunnelUrl == "https://t.ngrok.io"

\* config.projects -> projectMap, src/unnamed/part_008:483-487
projectMap == [demo |-> "/srv/demo"]

\* src/unnamed/part_008:511-514
resolveProjectPath(projectName) ==
    IF projectName \in DOMAIN projectMap /\ projectMap[projectName] # ""
      THEN projectMap[projectName] ELSE "null"

\* src/unnamed/part_008:424-437 before registration
NoSession ==
    [status |-> "none", events |-> <<>>, hasResult |-> FALSE,
     result |-> EmptyStr, hasError |-> FALSE, error |-> EmptyStr, clients |-> {}]

\* variant of NewSession whose status is not set
UnstartedSession ==
    [status |-> "none", events |-> <<>>, hasResult |-> FALSE,
     result |-> EmptyStr, hasError |-> FALSE, error |-> EmptyStr, clients |-> {}]

\* src/unnamed/part_008:608-619
NewSession ==
    [status |-> "running", events |-> <<>>, hasResult |-> FALSE,
     result |-> EmptyStr, hasError |-> FALSE, error |-> EmptyStr, clients |-> {}]

NoCall == [timeout |-> 0, cached |-> NullUrl, ret |-> "none",
           runningAtCheck |-> 0, sessionId |-> 0]

NoProc == [state |-> "none", code |-> "none", signals |-> <<>>]

\* joined: history, the length of the log when the socket was added
NoWs == [state |-> "new", session |-> 0, recv |-> <<>>, joined |-> 0]

NoResp == [kind |-> "none"]

NoEarly == [ret |-> "none", runningAtCheck |-> 0]

NoRecord == [JsonNull EXCEPT !.kind = "none"]

\* normalizeEvent has not returned
NotReturned == <<[type |-> "pending"]>>

Init ==
    /\ maxConcurrentSessions \in 1..MaxLimit
    /\ cachedNgrokUrl = NullUrl
    /\ sessions = [i \in Ids |-> 0]
    /\ heap = [k \in Calls |-> NoSession]
    /\ pc = [k \in Calls |-> "idle"]
    /\ call = [k \in Calls |-> NoCall]
    /\ proc = [k \in Calls |-> NoProc]
    /\ timer = [k \in Calls |-> "none"]
    /\ killTimers = [k \in Calls |-> 0]
    /\ ws = [c \in Clients |-> NoWs]
    /\ used = 0
    /\ bcast = [k \in Calls |-> <<>>]
    /\ killRets = [k \in Calls |-> <<>>]
    /\ resp = NoResp
    /\ early = NoEarly
    /\ emitted = [k \in Calls |-> <<>>]
    /\ console = "none"
    /\ rawRecord = NoRecord
    /\ normalized = NotReturned

\* ------------------------------------------------------------------ inputs
\* Every request, connection, line, signal, process end and timer expiry is
\* one input; the continuation of a suspended call and the listeners Node
\* runs after an input are not.
TakeInput == used < MaxEvents /\ used' = used + 1

\* ----------------------------------------------------------------- queries
Registered == {i \in Ids : sessions[i] # 0}

\* variant of RunningCount that counts every registered session
RegisteredCount(map, objs) == Cardinality({i \in Ids : map[i] # 0})

\* src/unnamed/part_008:532-534
RunningCount(map, objs) ==
    Cardinality({i \in Ids : map[i] # 0 /\ objs[map[i]].status = "running"})

getRunningSessionCount == RunningCount(sessions, heap)

\* variant of canSpawnSession that also admits at the limit
canSpawnAtLimit == getRunningSessionCount <= maxConcurrentSessions

\* src/unnamed/part_008:536-538
canSpawnSession == getRunningSessionCount < maxConcurrentSessions

\* ------------------------------------------------------------------- relay
\* src/unnamed/part_008:757-767; msg is the text JSON.stringify produced.
\* Gives the connections after the sends.
broadcast(conns, objs, map, sessionId, msg) ==
    IF map[sessionId] = 0 THEN conns
    ELSE [c \in Clients |->
            IF c \in objs[map[sessionId]].clients /\ conns[c].state = "open"
              THEN [conns[c] EXCEPT !.recv = Append(@, msg)]
              ELSE conns[c]]

\* history of the server notifications handed to broadcast
Noted(sessionId, note) ==
    IF sessions[sessionId] = 0 THEN bcast
    ELSE [bcast EXCEPT ![sessions[sessionId]] = Append(@, note)]

\* ------------------------------------------------------------ spawnSession
\* A call that reaches the await occupies the first free slot of `call`.
FreeSlot ==
    IF \E k \in Calls : pc[k] = "idle"
      THEN CHOOSE k \in Calls : pc[k] = "idle" /\ \A j \in Calls : j < k => pc[j] # "idle"
      ELSE 0

\* src/unnamed/part_008:544-568: the synchronous part, up to the await.
\* A call refused here returns at once.
SpawnBegin(projectName, timeout) ==
    /\ TakeInput
    /\ IF ~canSpawnSession THEN
            /\ early' = [ret |-> "MaxSessions",
                         runningAtCheck |-> getRunningSessionCount]
            /\ UNCHANGED <<call, pc>>
       ELSE IF resolveProjectPath(projectName) = "null" THEN
            /\ early' = [ret |-> "ProjectNotFound",
                         runningAtCheck |-> getRunningSessionCount]
            /\ UNCHANGED <<call, pc>>
       ELSE
            \* getNgrokUrl runs to its cache test; a hit resolves at once,
            \* a miss starts the fetch.  Either way the caller is suspended.
            /\ FreeSlot # 0
            /\ call' = [call EXCEPT ![FreeSlot] =
                          [NoCall EXCEPT !.cached = cachedNgrokUrl,
                                         !.timeout = timeout,
                                         !.runningAtCheck = getRunningSessionCount]]
            /\ pc' = [pc EXCEPT ![FreeSlot] = "await"]
            /\ early' = NoEarly
    /\ resp' = NoResp
    /\ console' = "none"
    /\ UNCHANGED <<rawRecord, normalized, maxConcurrentSessions, cachedNgrokUrl, sessions, heap, proc,
                   timer, killTimers, ws, bcast, killRets, emitted>>

\* src/unnamed/part_008:456-468: what getNgrokUrl resolves to.  cached is
\* the cache as the call found it; fetched is what the tunnel lookup gave
\* ("throw": fetch or json() rejected, NullUrl: no https tunnel).
getNgrokUrl(cached, fetched) ==
    IF cached # NullUrl THEN cached
    ELSE IF fetched = "throw" THEN NullUrl ELSE fetched

\* src/unnamed/part_008:568-606, 687-690: the return value of the resumed
\* call; os is the outcome of child_process.spawn.
SpawnOutcome(ngrokUrl, os) ==
    IF ngrokUrl = NullUrl THEN "NgrokUnavailable"
    ELSE IF os = "throw" THEN "SpawnFailed"
    ELSE IF os = "nopid" THEN "NoPid"
    ELSE "success"

\* variant of Registers that registers before the pid check
RegistersBeforePidCheck(ret) == ret \in {"success", "NoPid"}

\* src/unnamed/part_008:604-621: the session is created and registered only
\* when the child has a pid
Registers(ret) == ret = "success"

\* src/unnamed/part_008:568-691: the call resumes when getNgrokUrl settles.
\* newId is what generateSessionId returned (494-498: seconds plus six
\* random characters, so any id of the space, used or not).
SpawnResume(k, fetched, newId, os) ==
    /\ pc[k] = "await"
    /\ LET ngrokUrl == getNgrokUrl(call[k].cached, fetched)
           ret      == SpawnOutcome(ngrokUrl, os)
       IN
       /\ cachedNgrokUrl' = IF call[k].cached # NullUrl \/ fetched = "throw"
                              THEN cachedNgrokUrl ELSE fetched
       /\ IF Registers(ret) THEN
             /\ heap' = [heap EXCEPT ![k] = NewSession]
             /\ sessions' = [sessions EXCEPT ![newId] = k]
             /\ proc' = [proc EXCEPT ![k].state = "alive"]
             /\ timer' = [timer EXCEPT ![k] =
                              IF call[k].timeout > 0 THEN "armed" ELSE "none"]
          ELSE UNCHANGED <<sessions, heap, proc, timer>>
       /\ IF ret = "success" THEN
             \* the locals are dead once the call has returned
             /\ call' = [call EXCEPT ![k] =
                           [@ EXCEPT !.ret = "success", !.sessionId = newId,
                                     !.timeout = 0, !.cached = NullUrl,
                                     !.runningAtCheck = 0]]
             /\ pc' = [pc EXCEPT ![k] = "done"]
             /\ early' = NoEarly
          ELSE
             \* the call returns an error value; its slot is free again
             /\ early' = [ret |-> ret,
                          runningAtCheck |-> call[k].runningAtCheck]
             /\ call' = [call EXCEPT ![k] = NoCall]
             /\ pc' = [pc EXCEPT ![k] = "idle"]
    /\ resp' = NoResp
    /\ console' = IF getNgrokUrl(call[k].cached, fetched) = NullUrl
                    THEN "none" ELSE "spawning"
    /\ UNCHANGED <<rawRecord, normalized, maxConcurrentSessions, killTimers, ws, used, bcast,
                   killRets, emitted>>

\* -------------------------------------------------------------- handleEvent
ExitMessage(code) == <<"Process exited with code ", code>>
UnknownError == <<"Unknown error">>

\* variant of ApplyResult that leaves the session as it is
ApplyResultIgnored(s, event) == s

\* src/unnamed/part_008:776-783: the session after a record whose
\* properties can be read
ApplyResult(s, event) ==
    IF event.type = "result" THEN
        [s EXCEPT
           !.status = IF event.subtype = "success" THEN "complete" ELSE "error",
           !.hasResult = "result" \in event.has,
           !.result = event.result,
           !.hasError = IF event.subtype # "success" THEN TRUE ELSE @,
           !.error = IF event.subtype # "success"
                       THEN (IF event.error # EmptyStr THEN event.error
                             ELSE UnknownError)
                       ELSE @]
    ELSE s

\* variant of Push that adds at the front
Unshift(events, event) == <<event>> \o events

\* src/unnamed/part_008:774: session.events.push(event)
Push(events, event) == Append(events, event)

\* src/unnamed/part_008:769-787
handleEvent(sessionId, event) ==
    LET o == sessions[sessionId] IN
    IF o = 0 THEN UNCHANGED <<heap, ws>>
    ELSE
      LET pushed == [heap[o] EXCEPT !.events = Push(@, event)] IN
      IF PropThrows(event) THEN
          \* event.type throws after the push; the line reader catches it
          /\ heap' = [heap EXCEPT ![o] = pushed]
          /\ UNCHANGED ws
      ELSE
          /\ heap' = [heap EXCEPT ![o] = ApplyResult(pushed, event)]
          /\ ws' = broadcast(ws, heap, sessions, sessionId, JSONstringify(event))

\* src/unnamed/part_008:623-634: one line of the child's standard output
StdoutLine(k, line) ==
    /\ proc[k].state # "none"
    /\ TakeInput
    /\ IF ParseFails(line) THEN UNCHANGED <<heap, ws>>
       ELSE handleEvent(call[k].sessionId, JSONparse(line))
    /\ emitted' = IF ParseFails(line) \/ sessions[call[k].sessionId] = 0
                    THEN emitted
                    ELSE [emitted EXCEPT ![sessions[call[k].sessionId]] =
                                            Append(@, JSONparse(line))]
    /\ resp' = NoResp
    /\ early' = NoEarly
    /\ console' = "none"
    /\ UNCHANGED <<rawRecord, normalized, maxConcurrentSessions, cachedNgrokUrl, sessions, pc, call,
                   proc, timer, killTimers, bcast, killRets>>

\* variant of StderrData that also sends the data to the subscribers
StderrSurfaced(k) ==
    /\ proc[k].state # "none"
    /\ TakeInput
    /\ ws' = broadcast(ws, heap, sessions, call[k].sessionId, "server:stderr")
    /\ resp' = NoResp
    /\ early' = NoEarly
    /\ console' = "stderr"
    /\ UNCHANGED <<rawRecord, normalized, maxConcurrentSessions, cachedNgrokUrl, sessions, heap, pc,
                   call, proc, timer, killTimers, bcast, killRets, emitted>>

\* src/unnamed/part_008:636-641: standard error is logged only
StderrData(k) ==
    /\ proc[k].state # "none"
    /\ TakeInput
    /\ resp' = NoResp
    /\ early' = NoEarly
    /\ console' = "stderr"
    /\ UNCHANGED <<rawRecord, normalized, maxConcurrentSessions, cachedNgrokUrl, sessions, heap, pc,
                   call, proc, timer, killTimers, ws, bcast, killRets, emitted>>

\* ------------------------------------------------------------ the process
ExitCodes == {"0", "1"}

\* The child ends; Node has not run the 'exit' listeners yet.
ProcessEnds(k, code) ==
    /\ proc[k].state = "alive"
    /\ TakeInput
    /\ proc' = [proc EXCEPT ![k].state = "dead", ![k].code = code]
    /\ resp' = NoResp
    /\ early' = NoEarly
    /\ console' = "none"
    /\ UNCHANGED <<rawRecord, normalized, maxConcurrentSessions, cachedNgrokUrl, sessions, heap, pc,
                   call, timer, killTimers, ws, bcast, killRets, emitted>>

\* variant of ExitActs without the status guard
ExitActsAlways(s) == TRUE

\* variant of ExitActs in which the observer never acts
ExitActsNever(s) == FALSE

\* src/unnamed/part_008:647: the observer acts on a running session only
ExitActs(s) == s.status = "running"

\* variant of OnExit that also appends its notification to the log
OnExitLogsNote(k) ==
    /\ proc[k].state = "dead"
    /\ proc' = [proc EXCEPT ![k].state = "exited", ![k].code = "none"]
    /\ LET sessionId == call[k].sessionId
           o    == sessions[sessionId]
           code == proc[k].code
       IN
       IF o # 0 /\ ExitActs(heap[o]) THEN
           /\ heap' = [heap EXCEPT
                 ![o].status = IF code = "0" THEN "complete" ELSE "error",
                 ![o].hasError = IF code # "0" THEN TRUE ELSE @,
                 ![o].error = IF code # "0" THEN ExitMessage(code) ELSE @,
                 ![o].events = Push(@, JsonObject("server", "disconnected"))]
           /\ ws' = broadcast(ws, heap, sessions, sessionId, "server:disconnected")
           /\ bcast' = Noted(sessionId, "disconnected")
       ELSE
           /\ UNCHANGED <<heap, ws, bcast>>
    /\ resp' = NoResp
    /\ early' = NoEarly
    /\ console' = "exited"
    /\ UNCHANGED <<rawRecord, normalized, maxConcurrentSessions, cachedNgrokUrl, sessions, pc, call,
                   timer, killTimers, used, killRets, emitted>>

\* src/unnamed/part_008:644-658
OnExit(k) ==
    /\ proc[k].state = "dead"
    /\ proc' = [proc EXCEPT ![k].state = "exited", ![k].code = "none"]
    /\ LET sessionId == call[k].sessionId
           o    == sessions[sessionId]
           code == proc[k].code
       IN
       IF o # 0 /\ ExitActs(heap[o]) THEN
           /\ heap' = [heap EXCEPT
                 ![o].status = IF code = "0" THEN "complete" ELSE "error",
                 ![o].hasError = IF code # "0" THEN TRUE ELSE @,
                 ![o].error = IF code # "0" THEN ExitMessage(code) ELSE @]
           /\ ws' = broadcast(ws, heap, sessions, sessionId, "server:disconnected")
           /\ bcast' = Noted(sessionId, "disconnected")
       ELSE
           /\ UNCHANGED <<heap, ws, bcast>>
    /\ resp' = NoResp
    /\ early' = NoEarly
    /\ console' = "exited"
    /\ UNCHANGED <<rawRecord, normalized, maxConcurrentSessions, cachedNgrokUrl, sessions, pc, call,
                   timer, killTimers, used, killRets, emitted>>

ErrMessage == <<"kill EPERM">>

\* variant of OnError that logs the fault and records nothing
OnErrorUnrecorded(k) ==
    /\ proc[k].state # "none"
    /\ TakeInput
    /\ resp' = NoResp
    /\ early' = NoEarly
    /\ console' = "error"
    /\ UNCHANGED <<rawRecord, normalized, maxConcurrentSessions, cachedNgrokUrl, sessions, heap, pc,
                   call, proc, timer, killTimers, ws, bcast, killRets, emitted>>

\* src/unnamed/part_008:660-672: the child's 'error' event
OnError(k) ==
    /\ proc[k].state # "none"
    /\ TakeInput
    /\ LET sessionId == call[k].sessionId
           o == sessions[sessionId]
       IN
       IF o # 0 THEN
           /\ heap' = [heap EXCEPT ![o].status = "error",
                                   ![o].hasError = TRUE,
                                   ![o].error = ErrMessage]
           /\ ws' = broadcast(ws, heap, sessions, sessionId, "server:error")
           /\ bcast' = Noted(sessionId, "error")
       ELSE UNCHANGED <<heap, ws, bcast>>
    /\ resp' = NoResp
    /\ early' = NoEarly
    /\ console' = "error"
    /\ UNCHANGED <<rawRecord, normalized, maxConcurrentSessions, cachedNgrokUrl, sessions, pc, call,
                   proc, timer, killTimers, killRets, emitted>>

\* -------------------------------------------------------------- killSession
\* process.kill(pid, sig) throws ESRCH for a process that is gone.  For a
\* process that ended but whose exit Node has not handled yet the platform
\* decides (esrch).
KillThrows(o, esrch) ==
    \/ proc[o].state = "exited"
    \/ proc[o].state = "dead" /\ esrch

\* variant of KillCaught in which the exception leaves killSession
KillUncaught == "throw"

\* src/unnamed/part_008:723-726: the catch block returns success
KillCaught == "success"

\* variant of KillSignals without the status guard
KillSignalsAlways(s) == TRUE

\* src/unnamed/part_008:701: only a running session is signalled
KillSignals(s) == s.status = "running"

\* src/unnamed/part_008:693-727.  Leaves ret in killRets of the object.
killSession(sessionId, esrch) ==
    LET o == sessions[sessionId] IN
    IF o = 0 THEN
        UNCHANGED <<heap, proc, killTimers, ws, bcast, killRets>>
    ELSE IF KillSignals(heap[o]) /\ KillThrows(o, esrch) THEN
        \* catch: "Process may already be dead"
        /\ killRets' = [killRets EXCEPT ![o] = Append(@, KillCaught)]
        /\ UNCHANGED <<heap, proc, killTimers, ws, bcast>>
    ELSE
        /\ IF KillSignals(heap[o])
             THEN /\ proc' = [proc EXCEPT ![o].signals = Append(@, "SIGTERM")]
                  /\ killTimers' = [killTimers EXCEPT ![o] = @ + 1]
             ELSE UNCHANGED <<proc, killTimers>>
        /\ heap' = [heap EXCEPT ![o].status = "complete"]
        /\ ws' = broadcast(ws, heap, sessions, sessionId, "server:killed")
        /\ bcast' = Noted(sessionId, "killed")
        /\ killRets' = [killRets EXCEPT ![o] = Append(@, "success")]

\* variant of KillRet that reports success for an unknown id
KillRetIgnoresUnknown(sessionId) == [success |-> TRUE, error |-> "none"]

\* src/unnamed/part_008:694-697 and 722-726: what killSession returns
KillRet(sessionId) ==
    IF sessions[sessionId] = 0
      THEN [success |-> FALSE, error |-> "not found"]
      ELSE [success |-> TRUE, error |-> "none"]

\* kill_session tool, src/src/plugins/wake.ts:176-204, and POST /api/kill
KillSession(sessionId, esrch) ==
    /\ TakeInput
    /\ killSession(sessionId, esrch)
    /\ resp' = [kind |-> "kill", sessionId |-> sessionId,
                ret |-> KillRet(sessionId)]
    /\ early' = NoEarly
    /\ console' = "none"
    /\ UNCHANGED <<rawRecord, normalized, maxConcurrentSessions, cachedNgrokUrl, sessions, pc, call,
                   timer, emitted>>

\* src/unnamed/part_008:705-712: the escalation timer of one killSession
KillTimerFires(o) ==
    /\ killTimers[o] > 0
    /\ TakeInput
    /\ killTimers' = [killTimers EXCEPT ![o] = @ - 1]
    /\ proc' = IF proc[o].state = "alive"
                 THEN [proc EXCEPT ![o].signals = Append(@, "SIGKILL")]
                 ELSE proc
    /\ resp' = NoResp
    /\ early' = NoEarly
    /\ console' = "none"
    /\ UNCHANGED <<rawRecord, normalized, maxConcurrentSessions, cachedNgrokUrl, sessions, heap, pc,
                   call, timer, ws, bcast, killRets, emitted>>

\* variant of TimeoutActs without the status guard
TimeoutActsAlways(s) == TRUE

\* src/unnamed/part_008:678: the timer acts on a running session only
TimeoutActs(s) == s.status = "running"

\* src/unnamed/part_008:674-683
TimeoutFires(k, esrch) ==
    /\ timer[k] = "armed"
    /\ TakeInput
    /\ timer' = [timer EXCEPT ![k] = "none"]
    /\ LET sessionId == call[k].sessionId
           o == sessions[sessionId]
       IN
       IF o # 0 /\ TimeoutActs(heap[o])
         THEN /\ killSession(sessionId, esrch)
         ELSE /\ UNCHANGED <<heap, proc, killTimers, ws, bcast, killRets>>
    /\ resp' = NoResp
    /\ early' = NoEarly
    /\ console' = IF sessions[call[k].sessionId] # 0
                     /\ heap[sessions[call[k].sessionId]].status = "running"
                    THEN "timed out" ELSE "none"
    /\ UNCHANGED <<rawRecord, normalized, maxConcurrentSessions, cachedNgrokUrl, sessions, pc, call, emitted>>


\* ---------------------------------------------------------------- addClient
RECURSIVE MapSeq(_, _)
MapSeq(Op(_), seq) ==
    IF seq = <<>> THEN <<>> ELSE <<Op(Head(seq))>> \o MapSeq(Op, Tail(seq))

\* variant of Replay that drops the oldest event
ReplaySkipsFirst(events) ==
    IF events = <<>> THEN <<>> ELSE MapSeq(JSONstringify, Tail(events))

\* src/unnamed/part_008:746-749
Replay(events) == MapSeq(JSONstringify, events)

\* variant of NotFoundReply that sends the notification twice
NotFoundReplyTwice == <<"server:error", "server:error">>

\* src/unnamed/part_008:736: what a socket for an unknown id is sent
NotFoundReply == <<"server:error">>

\* variant of Greet that sends the confirmation after the replay
GreetLast(replay) == replay \o <<"server:connected">>

\* src/unnamed/part_008:744-749: the confirmation, then the replay
Greet(replay) == <<"server:connected">> \o replay

\* src/unnamed/part_008:733-755, called from the 'connection' handler,
\* src/src/index.ts:209-225, with a socket that has just opened
AddClient(c, sessionId) ==
    /\ ws[c].state = "new"
    /\ \A d \in Clients : d < c => ws[d].state # "new"
    /\ TakeInput
    /\ LET o == sessions[sessionId] IN
       IF o = 0 THEN
           /\ ws' = [ws EXCEPT ![c] =
                  [state |-> "closing", session |-> 0,
                   recv |-> NotFoundReply, joined |-> 0]]
           /\ UNCHANGED heap
       ELSE
           /\ heap' = [heap EXCEPT ![o].clients = @ \cup {c}]
           /\ ws' = [ws EXCEPT ![c] =
                  [state |-> "open", session |-> o,
                   recv |-> Greet(Replay(heap[o].events)),
                   joined |-> Len(heap[o].events)]]
    /\ resp' = NoResp
    /\ early' = NoEarly
    /\ console' = "none"
    /\ UNCHANGED <<rawRecord, normalized, maxConcurrentSessions, cachedNgrokUrl, sessions, pc, call,
                   proc, timer, killTimers, bcast, killRets, emitted>>

\* The peer or the network closes the connection: readyState leaves OPEN,
\* the 'close' event comes later.
WsClosing(c) ==
    /\ ws[c].state = "open"
    /\ TakeInput
    /\ ws' = [ws EXCEPT ![c].state = "closing"]
    /\ resp' = NoResp
    /\ early' = NoEarly
    /\ console' = "none"
    /\ UNCHANGED <<rawRecord, normalized, maxConcurrentSessions, cachedNgrokUrl, sessions, heap, pc,
                   call, proc, timer, killTimers, bcast, killRets, emitted>>

\* variant of Deregister that leaves the socket in the set
DeregisterNothing(clients, c) == clients

\* src/unnamed/part_008:753: session.clients.delete(ws)
Deregister(clients, c) == clients \ {c}

\* src/unnamed/part_008:751-754: the 'close' event of a socket
OnWsClose(c) ==
    /\ ws[c].state = "closing"
    /\ ws' = [ws EXCEPT ![c].state = "closed"]
    /\ heap' = IF ws[c].session = 0 THEN heap
               ELSE [heap EXCEPT ![ws[c].session].clients = Deregister(@, c)]
    /\ resp' = NoResp
    /\ early' = NoEarly
    /\ console' = "none"
    /\ UNCHANGED <<rawRecord, normalized, maxConcurrentSessions, cachedNgrokUrl, sessions, pc, call,
                   proc, timer, killTimers, used, bcast, killRets, emitted>>

\* ---------------------------------------------------------------- polling
\* variant of Slice that starts one element late
SliceOffByOne(seq, fromIndex) == SubSeq(seq, fromIndex + 2, Len(seq))

\* Array.prototype.slice(fromIndex), src/unnamed/part_008:108
Slice(seq, fromIndex) ==
    LET start == IF fromIndex < 0
                   THEN (IF Len(seq) + fromIndex < 0 THEN 0 ELSE Len(seq) + fromIndex)
                   ELSE fromIndex
    IN SubSeq(seq, start + 1, Len(seq))

\* src/unnamed/part_008:107-110
getNormalizedEvents(session, fromIndex) ==
    FlatMap(normalizeEvent, Slice(session.events, fromIndex))

NormalizeThrows(session, fromIndex) ==
    \E i \in 1..Len(Slice(session.events, fromIndex)) :
        PropThrows(Slice(session.events, fromIndex)[i])

\* variant of IncludesError that puts the error field in every response
IncludesErrorAlways(s) == TRUE

\* src/src/plugins/wake.ts:159: when the response carries the error text
IncludesError(s) == s.status = "error" /\ s.hasError /\ s.error # EmptyStr

\* variant of GetSession that removes the events it returns from the log
GetSessionConsumes(sessionId, fromIndex) ==
    /\ TakeInput
    /\ LET o == sessions[sessionId] IN
       /\ resp' = IF o = 0 THEN [kind |-> "not found", sessionId |-> sessionId]
                  ELSE [kind |-> "consumed", session |-> o]
       /\ heap' = IF o = 0 THEN heap
                  ELSE [heap EXCEPT ![o].events =
                          SubSeq(@, 1, Len(@) - Len(Slice(@, fromIndex)))]
    /\ early' = NoEarly
    /\ console' = "none"
    /\ UNCHANGED <<rawRecord, normalized, maxConcurrentSessions, cachedNgrokUrl, sessions, pc,
                   call, proc, timer, killTimers, ws, bcast, killRets, emitted>>

\* get_session tool, src/src/plugins/wake.ts:123-171
GetSession(sessionId, fromIndex) ==
    /\ TakeInput
    /\ LET o == sessions[sessionId] IN
       resp' = IF o = 0 THEN [kind |-> "not found", sessionId |-> sessionId]
               ELSE IF NormalizeThrows(heap[o], fromIndex)
                 THEN [kind |-> "throw",
                       session |-> o, fromIndex |-> fromIndex,
                       emitted |-> emitted[o]]
               ELSE [kind |-> "ok",
                     session |-> o,
                     emitted |-> emitted[o],   \* history, not in the response
                     status |-> heap[o].status,
                     totalEvents |-> Len(heap[o].events),
                     fromIndex |-> fromIndex,
                     events |-> getNormalizedEvents(heap[o], fromIndex),
                     hasResult |-> heap[o].status = "complete"
                                   /\ heap[o].hasResult
                                   /\ heap[o].result # EmptyStr,
                     result |-> heap[o].result,
                     hasError |-> IncludesError(heap[o]),
                     error |-> heap[o].error]
    /\ early' = NoEarly
    /\ console' = "none"
    /\ UNCHANGED <<rawRecord, normalized, maxConcurrentSessions, cachedNgrokUrl, sessions, heap, pc,
                   call, proc, timer, killTimers, ws, bcast, killRets, emitted>>

\* --------------------------------------------------------------- shutdown
\* variant of SweepSignals that signals no session
SweepSignalsNone(s) == FALSE

\* src/unnamed/part_008:796: the sweep signals the running sessions
SweepSignals(s) == s.status = "running"

\* src/unnamed/part_008:793-809, run on SIGTERM / SIGINT (483-492)
Shutdown ==
    /\ TakeInput
    /\ LET objs == {sessions[i] : i \in Registered} IN
       /\ proc' = [k \in Calls |->
                     IF k \in objs /\ SweepSignals(heap[k])
                        /\ proc[k].state = "alive"
                       THEN [proc[k] EXCEPT !.signals = Append(@, "SIGTERM")]
                       ELSE proc[k]]
       /\ ws' = [c \in Clients |->
                   IF (\E k \in objs : c \in heap[k].clients)
                      /\ ws[c].state = "open"
                     THEN [ws[c] EXCEPT !.state = "closing"]
                     ELSE ws[c]]
    /\ sessions' = [i \in Ids |-> 0]
    /\ resp' = NoResp
    /\ early' = NoEarly
    /\ console' = "shutting down"
    /\ UNCHANGED <<rawRecord, normalized, maxConcurrentSessions, cachedNgrokUrl, heap, pc, call, timer,
                   killTimers, bcast, killRets, emitted>>

\* ----------------------------------------------------------- specification
ProjectNames == {"demo", "nope"}
Timeouts     == {0, 30}
FetchResults == {TunnelUrl, NullUrl, "throw"}
OsResults    == {"ok", "nopid", "throw"}
FromIndexes  == {-1, 0, 1}

Next ==
    \/ \E p \in ProjectNames, t \in Timeouts : SpawnBegin(p, t)
    \/ \E k \in Calls, f \in FetchResults, i \in Ids, os \in OsResults :
          SpawnResume(k, f, i, os)
    \/ \E k \in Calls, line \in StdoutLines : StdoutLine(k, line)
    \/ \E k \in Calls : StderrData(k)
    \/ \E k \in Calls, code \in ExitCodes : ProcessEnds(k, code)
    \/ \E k \in Calls : OnExit(k)
    \/ \E k \in Calls : OnError(k)
    \/ \E i \in Ids, e \in BOOLEAN : KillSession(i, e)
    \/ \E k \in Calls : KillTimerFires(k)
    \/ \E k \in Calls, e \in BOOLEAN : TimeoutFires(k, e)
    \/ \E c \in Clients, i \in Ids : AddClient(c, i)
    \/ \E c \in Clients : WsClosing(c)
    \/ \E c \in Clients : OnWsClose(c)
    \/ \E i \in Ids, n \in FromIndexes : GetSession(i, n)
    \/ Shutdown

Spec == Init /\ [][Next]_vars

\* Node dispatches the 'exit' event of a child that has ended: the listener
\* of src/unnamed/part_008:644 is run eventually.
LiveSpec == Spec /\ \A k \in Calls : WF_vars(OnExit(k))

\* ------------------------------------------------- normalizeEvent by itself
\* A string of n characters; the character depends on the position.
Chars(n) == [i \in 1..n |-> ToString(i % 10)]

\* the 5000-character input of the specification's example
ExampleLen == 2 * DefaultMaxLen + DefaultMaxLen \div 2

InputLengths ==
    (0..MaxShortLen)
      \cup ((DefaultMaxLen - MaxShortLen)..(DefaultMaxLen + MaxShortLen))
      \cup {ExampleLen}

\* an assistant record with one tool_use block whose input is a string
ToolUseRecord(input) ==
    [JsonObject("assistant", "") EXCEPT
        !.has = {"message"},
        !.content = <<ToolUseBlock(Bash, "string", input)>>]

machine == <<maxConcurrentSessions, cachedNgrokUrl, sessions, heap, pc, call,
             proc, timer, killTimers, ws, used, bcast, killRets, resp, early,
             emitted, console>>

\* the child emits a tool invocation with an input of n characters
EmitToolUse(n) ==
    /\ rawRecord = NoRecord
    /\ rawRecord' = ToolUseRecord(Chars(n))
    /\ UNCHANGED <<normalized, machine>>

\* an assistant record with three text blocks
ThreeTexts ==
    [JsonObject("assistant", "") EXCEPT
        !.has = {"message"},
        !.content = <<TextBlock(Hi), TextBlock(Ok), TextBlock(Ls)>>]

SampleRecords ==
    {SystemInit, AssistantMsg, UserMsg, ResultSuccess, ResultError,
     ResultErrorNoText, ThreeTexts}

\* the child emits one of the sample records
EmitRecord(record) ==
    /\ rawRecord = NoRecord
    /\ rawRecord' = record
    /\ UNCHANGED <<normalized, machine>>

ResultLengths ==
    {0, 1, ResultMaxLen - 1, ResultMaxLen, ResultMaxLen + 1,
     ResultMaxLen + MaxShortLen}

\* a result record; has tells which of result, duration_ms and
\* total_cost_usd it carries, n is the length of the result text
ResultRecord(n, has) ==
    [JsonObject("result", "success") EXCEPT
        !.has = has,
        !.result = IF "result" \in has THEN Chars(n) ELSE EmptyStr,
        !.duration_ms = IF "duration_ms" \in has THEN 7 ELSE 0,
        !.total_cost_usd = IF "total_cost_usd" \in has THEN 1 ELSE 0]

\* the child emits a result record
EmitResult(n, has) ==
    /\ rawRecord = NoRecord
    /\ rawRecord' = ResultRecord(n, has)
    /\ UNCHANGED <<normalized, machine>>

\* src/unnamed/part_008:52-105 applied to the record
NormalizeRecord ==
    /\ rawRecord # NoRecord
    /\ normalized = NotReturned
    /\ normalized' = normalizeEvent(rawRecord)
    /\ UNCHANGED <<rawRecord, machine>>

NormNext ==
    \/ \E n \in InputLengths : EmitToolUse(n)
    \/ \E record \in SampleRecords : EmitRecord(record)
    \/ \E n \in ResultLengths,
          has \in SUBSET {"result", "duration_ms", "total_cost_usd"} :
             EmitResult(n, has)
    \/ NormalizeRecord

NormSpec == Init /\ [][NormNext]_vars


\* ================================================================== claims
ServerMessages ==
    {"server:connected", "server:killed", "server:disconnected", "server:error"}

IsRawMessage(m) == m \notin ServerMessages

\* the raw events a socket was sent, in the order it was sent them
RawReceived(c) == SelectSeq(ws[c].recv, IsRawMessage)

Count(seq, x) == Cardinality({n \in DOMAIN seq : seq[n] = x})

Terminal == {"complete", "error"}

Limit == maxConcurrentSessions

\* the steps of the handlers, told by what they change
IsSpawnAdmitted(k) == pc[k] = "idle" /\ pc'[k] = "await"
IsSpawnRefused     == early'.ret \in {"MaxSessions", "ProjectNotFound"}
IsSpawnResumed(k)  == pc[k] = "await" /\ pc'[k] # "await"
IsExit(k)          == proc[k].state = "dead" /\ proc'[k].state = "exited"
IsKillOf(o)        == Len(killRets'[o]) = Len(killRets[o]) + 1

\* C1: in every reachable state the number of registered sessions with
\* status running is at most maxConcurrentSessions.
C1_RunningWithinLimit == getRunningSessionCount <= maxConcurrentSessions

\* C2: a spawnSession call passes the admission check iff the running count
\* R it reads is below the limit L: with R >= L it returns the 'Max
\* concurrent sessions' error and registers nothing; with R < L it is refused
\* only for an unknown project, an unavailable tunnel or a failed OS spawn,
\* and succeeds otherwise.
C2_SpawnSucceedsIffBelowLimit ==
    [][ /\ \A k \in Calls :
              IsSpawnAdmitted(k) => getRunningSessionCount < Limit
        /\ IsSpawnRefused =>
              /\ (early'.ret = "MaxSessions") <=> (getRunningSessionCount >= Limit)
              /\ early'.ret \in {"MaxSessions", "ProjectNotFound"}
              /\ sessions' = sessions /\ heap' = heap /\ proc' = proc
        /\ \A k \in Calls :
              IsSpawnResumed(k) =>
                 /\ call[k].runningAtCheck < Limit
                 /\ \/ pc'[k] = "done" /\ call'[k].ret = "success"
                       /\ sessions'[call'[k].sessionId] = k
                    \/ pc'[k] = "idle"
                       /\ early'.ret \in {"NgrokUnavailable", "SpawnFailed", "NoPid"}
      ]_vars

C2_Witness ==
    /\ early.ret = "MaxSessions"
    /\ early.runningAtCheck >= Limit
    /\ \E k \in Calls : pc[k] = "done" /\ call[k].ret = "success"

\* C3: once a session's status is complete or error, no later signal changes
\* it to any other value.
C3_StatusOnlyForward ==
    [][ \A o \in Calls :
           heap[o].status \in Terminal => heap'[o].status = heap[o].status ]_vars

\* C4: killSession invoked twice on the same registered session returns
\* success both times and broadcasts exactly one 'killed' notification.
C4_TwoKillsOneKilledBroadcast ==
    \A o \in Calls :
        Len(killRets[o]) = 2 =>
            /\ killRets[o] = <<"success", "success">>
            /\ Count(bcast[o], "killed") = 1

\* C5: when killSession and the natural process exit race, the one that runs
\* second is a no-op: it changes neither status nor error text and
\* broadcasts nothing (exit then kill, and kill then exit).
C5_LoserOfKillExitRaceIsNoOp ==
    [][ /\ \A o \in Calls :
              (IsKillOf(o) /\ Count(bcast[o], "disconnected") > 0) =>
                  /\ heap'[o] = heap[o]
                  /\ bcast'[o] = bcast[o]
                  /\ ws' = ws
        /\ \A k \in Calls :
              (IsExit(k) /\ sessions[call[k].sessionId] # 0
                 /\ Count(bcast[sessions[call[k].sessionId]], "killed") > 0) =>
                  /\ heap' = heap
                  /\ bcast' = bcast
                  /\ ws' = ws
      ]_vars

C7_SubscriberSeesLog ==
    \A c \in Clients :
        (ws[c].state = "open" /\ ws[c].session # 0) =>
            RawReceived(c) =
               [n \in 1..Len(heap[ws[c].session].events) |->
                    JSONstringify(heap[ws[c].session].events[n])]

RECURSIVE InEmissionOrder(_)
\* the normalization of each record, concatenated first record first
InEmissionOrder(records) ==
    IF records = <<>> THEN <<>>
    ELSE InEmissionOrder(SubSeq(records, 1, Len(records) - 1))
            \o normalizeEvent(records[Len(records)])

OnlyRecords(values) == \A n \in DOMAIN values : values[n].kind = "object"

C9_FailedSpawnRegistersNothing ==
    [][ /\ IsSpawnRefused =>
              sessions' = sessions /\ heap' = heap /\ proc' = proc
        /\ \A k \in Calls :
              /\ IsSpawnAdmitted(k) =>
                    sessions' = sessions /\ heap' = heap /\ proc' = proc
              /\ (IsSpawnResumed(k) /\ pc'[k] = "idle") =>
                    /\ early'.ret \in {"NgrokUnavailable", "SpawnFailed", "NoPid"}
                    /\ sessions' = sessions /\ heap' = heap /\ proc' = proc
        /\ \A i \in Ids :
              (sessions'[i] # sessions[i] /\ sessions'[i] # 0) =>
                  /\ IsSpawnResumed(sessions'[i])
                  /\ call'[sessions'[i]].ret = "success"
                  /\ proc'[sessions'[i]].state = "alive"
      ]_vars

C9_Witness ==
    /\ early.ret = "NoPid"
    /\ Registered # {}
    /\ \A k \in Calls : pc[k] # "await"

\* C10: when the process exits while the session's status is running, the
\* exit observer sets complete for code 0 and error with 'Process exited
\* with code N' otherwise, and broadcasts 'disconnected'; when the status is
\* already terminal, the observer changes nothing.
C10_ExitObserver ==
    [][ \A k \in Calls :
          (IsExit(k) /\ sessions[call[k].sessionId] # 0) =>
            LET o == sessions[call[k].sessionId]
                code == proc[k].code
            IN
            IF heap[o].status = "running" THEN
                /\ heap'[o].status = IF code = "0" THEN "complete" ELSE "error"
                /\ code # "0" => heap'[o].hasError /\ heap'[o].error = ExitMessage(code)
                /\ code = "0" => heap'[o].hasError = heap[o].hasError
                                 /\ heap'[o].error = heap[o].error
                /\ heap'[o].events = heap[o].events
                /\ bcast'[o] = Append(bcast[o], "disconnected")
                /\ \A c \in Clients :
                      ws'[c].recv =
                         IF c \in heap[o].clients /\ ws[c].state = "open"
                           THEN Append(ws[c].recv, "server:disconnected")
                           ELSE ws[c].recv
            ELSE heap' = heap /\ ws' = ws /\ bcast' = bcast
      ]_vars

C10_Witness ==
    \E o \in Calls, c \in Clients :
        /\ heap[o].status = "error"
        /\ heap[o].error = ExitMessage("1")
        /\ bcast[o] = <<"disconnected">>
        /\ ws[c].session = o
        /\ ws[c].recv = <<"server:connected", "server:disconnected">>

TerminalNotes == {"disconnected", "error", "killed"}

IsTerminalNote(note) == note \in TerminalNotes

\* C11: the end of a registered session's process (exit and/or error) gives
\* exactly one synthetic terminal notification broadcast to the session's
\* subscribers: never more than one, and not zero once the exit was handled.
C11_OneTerminalNotification ==
    \A o \in Calls :
        pc[o] = "done" =>
            /\ Len(SelectSeq(bcast[o], IsTerminalNote)) <= 1
            /\ (proc[o].state = "exited" /\ sessions[call[o].sessionId] = o) =>
                  Len(SelectSeq(bcast[o], IsTerminalNote)) = 1

LastOf(seq) == seq[Len(seq)]

\* C12: killSession on a registered running session sends SIGTERM, sets the
\* status to complete, broadcasts 'killed' and returns success.
C12_KillMarksComplete ==
    [][ \A o \in Calls :
           (IsKillOf(o) /\ heap[o].status = "running") =>
               /\ proc'[o].signals = Append(proc[o].signals, "SIGTERM")
               /\ heap'[o].status = "complete"
               /\ bcast'[o] = Append(bcast[o], "killed")
               /\ LastOf(killRets'[o]) = "success"
      ]_vars

\* C13: killSession on a registered session returns success, also when the
\* signal cannot be delivered because the process is already gone; no
\* exception leaves killSession.
C13_KillReturnsSuccess ==
    [][ /\ \A o \in Calls :
              IsKillOf(o) => LastOf(killRets'[o]) = "success"
        /\ (resp'.kind = "kill" /\ sessions[resp'.sessionId] # 0) =>
              /\ resp'.ret.success
              /\ IsKillOf(sessions[resp'.sessionId])
      ]_vars

\* killSession has returned success although process.kill threw: the status
\* is still running
C13_Witness ==
    \E o \in Calls :
        /\ resp.kind = "kill" /\ sessions[resp.sessionId] = o
        /\ resp.ret.success
        /\ killRets[o] = <<"success">>
        /\ proc[o].state = "dead"
        /\ heap[o].status = "running"
        /\ bcast[o] = <<>>

\* C14: operations on an unknown session id return an explicit not-found
\* result and change no state: killSession returns success = false with a
\* 'not found' error, sends no signal and broadcasts nothing; get_session
\* returns a 'not found' error.  Known ids never get the not-found result.
C14_UnknownIdNotFound ==
    [][ /\ resp'.kind = "kill" =>
              /\ resp'.ret.success <=> sessions[resp'.sessionId] # 0
              /\ ~resp'.ret.success =>
                    /\ resp'.ret.error = "not found"
                    /\ UNCHANGED <<sessions, heap, proc, timer, killTimers,
                                   ws, bcast, killRets, emitted>>
        /\ resp'.kind = "not found" =>
              /\ sessions[resp'.sessionId] = 0
              /\ UNCHANGED <<sessions, heap, proc, timer, killTimers,
                             ws, bcast, killRets, emitted>>
        /\ resp'.kind \in {"ok", "throw"} =>
              sessions' = sessions /\ resp'.session \in {sessions[i] : i \in Registered}
      ]_vars

\* kill_session for an id that is not registered, while another session runs
C14_Witness ==
    /\ resp.kind = "kill"
    /\ sessions[resp.sessionId] = 0
    /\ ~resp.ret.success
    /\ getRunningSessionCount >= 1

\* C15: addClient with an unknown session id sends the socket exactly one
\* error notification and closes it; the socket is in no session's
\* subscriber set, then or later, and no session state changes.
C15_UnknownIdSubscriber ==
    [][ \A c \in Clients :
          /\ (ws[c].state = "new" /\ ws'[c].state # "new" /\ ws'[c].session = 0) =>
                /\ ws'[c].state = "closing"
                /\ heap' = heap /\ sessions' = sessions /\ bcast' = bcast
                /\ \A d \in Clients \ {c} : ws'[d] = ws[d]
          /\ (ws'[c].state # "new" /\ ws'[c].session = 0) =>
                /\ ws'[c].recv = <<"server:error">>
                /\ ws'[c].state \in {"closing", "closed"}
                /\ \A o \in Calls : c \notin heap'[o].clients
          /\ (ws[c].state = "new" /\ ws'[c].session # 0) =>
                /\ ws'[c].recv[1] = "server:connected"
                /\ c \in heap'[ws'[c].session].clients
      ]_vars

\* a socket for an unknown id was answered and has closed, sessions exist
C15_Witness ==
    \E c \in Clients :
        /\ ws[c].session = 0
        /\ ws[c].state = "closed"
        /\ ws[c].recv = <<"server:error">>
        /\ Registered # {}

RegisteredObjects == {sessions[i] : i \in Registered}

TerminalObjects == {o \in RegisteredObjects : heap[o].status \in Terminal}

\* C16: sessions in a terminal status stay registered but do not count
\* against the limit: a spawn is refused with the admission error only when
\* the registered sessions that are not terminal number at least the limit,
\* and it is admitted whenever they number less, however many terminal
\* sessions are registered.
C16_TerminalSessionsFreeTheSlot ==
    [][ /\ early'.ret = "MaxSessions" =>
              Cardinality(RegisteredObjects \ TerminalObjects) >= Limit
        /\ early'.ret = "ProjectNotFound" =>
              Cardinality(RegisteredObjects \ TerminalObjects) < Limit
        /\ \A k \in Calls :
              /\ IsSpawnAdmitted(k) =>
                    Cardinality(RegisteredObjects \ TerminalObjects) < Limit
              /\ (heap[k].status = "running" /\ heap'[k].status \in Terminal) =>
                    sessions' = sessions
      ]_vars

\* limit 1: a session completed by exit code 0 is still registered and a
\* later spawn has registered a second, running session
C16_Witness ==
    \E o1, o2 \in RegisteredObjects :
        /\ Limit = 1
        /\ heap[o1].status = "complete" /\ bcast[o1] = <<"disconnected">>
        /\ heap[o2].status = "running"
        /\ Cardinality(RegisteredObjects) >= Limit + 1

\* C17: a session id is never reused: registering a new session never
\* replaces an existing registry entry.
C17_IdNeverReused ==
    [][ \A i \in Ids :
           sessions[i] # 0 => sessions'[i] \in {sessions[i], 0} ]_vars

IsPrefix(a, b) == Len(a) <= Len(b) /\ SubSeq(b, 1, Len(a)) = a

\* C18: each session's raw event log is append-only with stable indices:
\* in every step the log before is a prefix of the log after; no operation
\* removes, reorders or rewrites a recorded event.
C18_LogAppendOnly ==
    [][ \A o \in Calls : IsPrefix(heap[o].events, heap'[o].events) ]_vars

\* a log of two different events
C18_Witness ==
    \E o \in RegisteredObjects :
        /\ Len(heap[o].events) = 2
        /\ heap[o].events[1] # heap[o].events[2]

\* the raw events at the 0-based log indices >= fromIndex
FromIndexOn(log, fromIndex) ==
    LET kept == {n \in DOMAIN log : n - 1 >= fromIndex}
    IN  [n \in 1..Cardinality(kept) |-> log[Len(log) - Cardinality(kept) + n]]

\* C19: get_session(sessionId, fromIndex) on a registered session returns
\* the normalization of exactly the raw events at log indices >= fromIndex,
\* in order, together with totalEvents equal to the length of the raw log.
C19_PollFromIndex ==
    resp.kind \in {"ok", "throw"} =>
        /\ resp.kind = "ok"
        /\ resp.totalEvents = Len(heap[resp.session].events)
        /\ resp.events =
              InEmissionOrder(FromIndexOn(heap[resp.session].events, resp.fromIndex))

\* C20: truncation of a tool input: for an input string of length n the
\* normalized input is the string itself when n <= 2000, and otherwise its
\* first 2000 characters followed by the elision marker stating n - 2000 as
\* the number of cut characters.
C20_ToolInputTruncation ==
    (normalized # NotReturned /\ rawRecord.type = "assistant"
       /\ Len(rawRecord.content) = 1
       /\ rawRecord.content[1].type = "tool_use") =>
        LET str == rawRecord.content[1].input
            n   == Len(str)
            out == normalized[1].input
        IN  /\ Len(normalized) = 1
            /\ normalized[1].type = "tool_use"
            /\ n <= 2000 => out = str
            /\ n > 2000 =>
                  /\ Len(out) = 2000 + 3
                  /\ \A i \in 1..2000 : out[i] = str[i]
                  /\ out[2001] = "\n... (truncated, "
                  /\ out[2002] = ToString(n - 2000)
                  /\ out[2003] = " more chars)"

\* a 5000-character input gives 2000 characters and '3000 more chars'
C20_Witness ==
    /\ Len(rawRecord.content) = 1
    /\ Len(rawRecord.content[1].input) = 5000
    /\ normalized # NotReturned
    /\ Len(normalized[1].input) = 2003
    /\ normalized[1].input[2002] = "3000"

\* C21: normalizeEvent yields 0, 1 or 2 normalized events for every raw
\* record, never more than 2, whatever the number of content blocks.
C21_AtMostTwoEvents ==
    normalized # NotReturned => Len(normalized) <= 2

\* C22: normalizeEvent maps a record of type 'system' to the empty list and
\* a record of type 'result' to exactly one completion event whose text is
\* the record's result truncated to 4000 characters, with the record's
\* duration and cost when present.
C22_SystemAndResult ==
    normalized # NotReturned =>
        /\ rawRecord.type = "system" => normalized = <<>>
        /\ rawRecord.type = "result" =>
              LET text == rawRecord.result
                  n    == Len(text)
              IN
              /\ Len(normalized) = 1
              /\ normalized[1].type = "complete"
              /\ n <= 4000 => normalized[1].result = text
              /\ n > 4000 =>
                    /\ Len(normalized[1].result) = 4000 + 3
                    /\ \A i \in 1..4000 : normalized[1].result[i] = text[i]
                    /\ normalized[1].result[4002] = ToString(n - 4000)
              /\ \A member \in {"duration_ms", "total_cost_usd"} :
                    member \in normalized[1].has <=> member \in rawRecord.has
              /\ "duration_ms" \in rawRecord.has =>
                    normalized[1].duration_ms = rawRecord.duration_ms
              /\ "total_cost_usd" \in rawRecord.has =>
                    normalized[1].cost = rawRecord.total_cost_usd

\* a result record with a text of 4001 characters, duration and cost
C22_Witness ==
    /\ normalized # NotReturned
    /\ rawRecord.type = "result"
    /\ rawRecord.has = {"result", "duration_ms", "total_cost_usd"}
    /\ Len(rawRecord.result) = 4001
    /\ Len(normalized[1].result) = 4003
    /\ normalized[1].result[4002] = "1"
    /\ normalized[1].duration_ms = 7

\* C23: a stdout line that does not decode to a raw record is dropped: it
\* is not appended to the session's log, so every log entry is a record.
C23_OnlyRecordsLogged ==
    \A o \in Calls : OnlyRecords(heap[o].events)

\* C24: closing a subscriber connection removes that handle from its
\* session's subscriber set and changes nothing else (status, log, result,
\* error, process, registry, the other subscribers), and a handle that has
\* left the open state is sent nothing more.
IsWsClose(c) == ws[c].state = "closing" /\ ws'[c].state = "closed"

C24_CloseOnlyDeregisters ==
    [][\A c \in Clients :
         /\ IsWsClose(c) =>
              /\ \A o \in Calls :
                   heap'[o] = [heap[o] EXCEPT !.clients =
                                 IF ws[c].session = o THEN @ \ {c} ELSE @]
              /\ \A d \in Clients \ {c} : ws'[d] = ws[d]
              /\ ws'[c].recv = ws[c].recv
              /\ UNCHANGED <<sessions, proc, bcast, killRets, killTimers,
                             timer, emitted>>
         /\ ws[c].state \in {"closing", "closed"} => ws'[c].recv = ws[c].recv
      ]_vars

C24_Witness ==
    \E c \in Clients :
        /\ ws[c].state = "closed"
        /\ ws[c].session # 0
        /\ c \notin heap[ws[c].session].clients
        /\ heap[ws[c].session].status = "running"
        /\ \E i \in Ids : sessions[i] = ws[c].session

\* C25: shutdown visits every registered session: each one whose status is
\* running is sent SIGTERM (a signal that fails is ignored and the sweep
\* goes on), every subscriber of every registered session is closed, the
\* registry is left empty, and no session or process state is waited for.
IsShutdown == console' = "shutting down"

C25_ShutdownSweep ==
    [][IsShutdown =>
         /\ \A k \in Calls :
              IF k \in RegisteredObjects /\ heap[k].status = "running"
                 /\ proc[k].state = "alive"
                THEN proc'[k] = [proc[k] EXCEPT !.signals = Append(@, "SIGTERM")]
                ELSE proc'[k] = proc[k]
         /\ \A c \in Clients :
              /\ (\E k \in RegisteredObjects : c \in heap[k].clients)
                   => ws'[c].state \in {"closing", "closed"}
              /\ ws'[c].recv = ws[c].recv
         /\ \A i \in Ids : sessions'[i] = 0
         /\ UNCHANGED <<heap, bcast, killTimers, timer>>
      ]_vars

C25_Witness ==
    /\ console = "shutting down"
    /\ Registered = {}
    /\ \E k \in Calls :
         /\ heap[k].status = "running"
         /\ proc[k].state = "alive"
         /\ proc[k].signals = <<"SIGTERM">>
         /\ \E c \in heap[k].clients : ws[c].state = "closing"

\* C26: when the timeout timer of a spawn fires, the kill path runs iff the
\* session registered under the spawn's id has status running; when that
\* session is terminal, or no session is registered under the id, the timer
\* sends no signal, changes no status and broadcasts nothing.
IsTimeout(k) == timer[k] = "armed" /\ timer'[k] = "none"

C26_TimeoutKillsIffRunning ==
    [][\A k \in Calls :
         IsTimeout(k) =>
           LET o == sessions[call[k].sessionId] IN
           IF o # 0 /\ heap[o].status = "running"
             THEN IsKillOf(o)
             ELSE UNCHANGED <<heap, proc, ws, bcast, killRets, killTimers>>
      ]_vars

C26_Witness ==
    \E k \in Calls :
        /\ console = "timed out"
        /\ pc[k] = "done"
        /\ timer[k] = "none"
        /\ sessions[call[k].sessionId] = k
        /\ heap[k].status = "complete"
        /\ killRets[k] = <<"success">>
        /\ proc[k].signals = <<"SIGTERM">>
        /\ bcast[k] = <<"killed">>

\* C27: data the child writes to standard error is only logged: the step
\* appends nothing to any event log, changes no status, result or error,
\* and sends nothing to any subscriber.
IsStderr == console' = "stderr"

C27_StderrOnlyLogged ==
    [][IsStderr => UNCHANGED <<heap, ws, bcast, sessions, proc, killRets,
                               emitted>>]_vars

C27_Witness ==
    /\ console = "stderr"
    /\ \E k \in Calls, c \in Clients :
         /\ heap[k].status = "running"
         /\ heap[k].events = <<>>
         /\ heap[k].clients = {c}
         /\ ws[c].state = "open"
         /\ ws[c].recv = <<"server:connected">>

\* C28: in every reachable state every registered session has a status in
\* {running, complete, error}, and a session that has just been registered
\* has status running, an empty event log and an empty subscriber set.
SessionStatus == {"running", "complete", "error"}

C28_StatusDomain ==
    [][\A i \in Ids :
         sessions'[i] # 0 =>
           /\ heap'[sessions'[i]].status \in SessionStatus
           /\ sessions'[i] # sessions[i] =>
                /\ heap'[sessions'[i]].status = "running"
                /\ heap'[sessions'[i]].events = <<>>
                /\ heap'[sessions'[i]].clients = {}
      ]_vars

C28_Witness ==
    \E i \in Ids :
        /\ sessions[i] # 0
        /\ console = "spawning"
        /\ heap[sessions[i]].status = "running"
        /\ heap[sessions[i]].events = <<>>
        /\ heap[sessions[i]].clients = {}
        /\ \E j \in Ids \ {i} :
             sessions[j] # 0 /\ heap[sessions[j]].status \in Terminal

\* C29: a fault the child process reports after spawn (its 'error' event)
\* is recorded on the session registered under the spawn's id and nothing
\* is thrown: the status becomes error, the error text becomes the fault's
\* message, and one 'error' notification is broadcast to the open
\* subscribers; nothing else changes.
IsProcessFault == console' = "error"

FaultRecorded(k) ==
    LET o == sessions[call[k].sessionId] IN
    IF o = 0 THEN UNCHANGED <<heap, ws, bcast>>
    ELSE
      /\ heap' = [heap EXCEPT ![o].status = "error",
                              ![o].hasError = TRUE,
                              ![o].error = ErrMessage]
      /\ bcast' = [bcast EXCEPT ![o] = Append(@, "error")]
      /\ \A c \in Clients :
           ws'[c] = IF c \in heap[o].clients /\ ws[c].state = "open"
                      THEN [ws[c] EXCEPT !.recv = Append(@, "server:error")]
                      ELSE ws[c]

C29_FaultRecordedNotThrown ==
    [][IsProcessFault =>
         /\ \E k \in Calls : pc[k] = "done" /\ FaultRecorded(k)
         /\ UNCHANGED <<sessions, proc, pc, call, killRets, killTimers, timer>>
      ]_vars

C29_Witness ==
    /\ console = "error"
    /\ \E k \in Calls, c \in Clients :
         /\ heap[k].status = "error"
         /\ heap[k].error = ErrMessage
         /\ bcast[k] = <<"error">>
         /\ ws[c].state = "open"
         /\ ws[c].recv = <<"server:connected", "server:error">>

\* C30: a raw record of type 'result' is appended to the log and sets the
\* terminal state from its subtype: 'success' gives status complete, any
\* other subtype gives status error with the record's error text or
\* 'Unknown error'; in both cases the record's result text is stored and
\* the record is broadcast to the open subscribers.
IsResultLogged(o) ==
    /\ Len(heap'[o].events) = Len(heap[o].events) + 1
    /\ LastOf(heap'[o].events).kind = "object"
    /\ LastOf(heap'[o].events).type = "result"

C30_ResultSetsTerminalState ==
    [][\A o \in Calls :
         IsResultLogged(o) =>
           LET event == LastOf(heap'[o].events) IN
           /\ heap'[o].events = Append(heap[o].events, event)
           /\ IF event.subtype = "success"
                THEN /\ heap'[o].status = "complete"
                     /\ heap'[o].hasError = heap[o].hasError
                     /\ heap'[o].error = heap[o].error
                ELSE /\ heap'[o].status = "error"
                     /\ heap'[o].hasError
                     /\ heap'[o].error = IF event.error # EmptyStr
                                           THEN event.error ELSE UnknownError
           /\ heap'[o].result = event.result
           /\ heap'[o].hasResult = ("result" \in event.has)
           /\ \A c \in Clients :
                ws'[c].recv = IF c \in heap[o].clients /\ ws[c].state = "open"
                                THEN Append(ws[c].recv, JSONstringify(event))
                                ELSE ws[c].recv
      ]_vars

C30_Witness ==
    \E o \in Calls, c \in Clients :
        /\ heap[o].events = <<ResultErrorNoText>>
        /\ heap[o].status = "error"
        /\ heap[o].error = UnknownError
        /\ ws[c].state = "open"
        /\ ws[c].session = o
        /\ ws[c].joined = 0
        /\ ws[c].recv = <<"server:connected", "resErr2">>

\* C31: SIGKILL is only an escalation: it is sent to a session's process
\* only by the grace timer that a killSession call armed when it sent
\* SIGTERM to the running session, and only if the process is alive when the
\* timer fires; killSession on a session that is not running sends no
\* signal and arms no timer.
SentBefore(signals, i, sig) == \E j \in 1..(i - 1) : signals[j] = sig

C32_ConnectedFirst ==
    \A c \in Clients :
        ws[c].session # 0 =>
          /\ ws[c].recv # <<>>
          /\ ws[c].recv[1] = "server:connected"
          /\ \A i \in 2..Len(ws[c].recv) : ws[c].recv[i] # "server:connected"
          /\ ws[c].state = "open" => c \in heap[ws[c].session].clients

C32_Witness ==
    \E c \in Clients :
        /\ ws[c].session # 0
        /\ ws[c].state = "open"
        /\ ws[c].joined = 1
        /\ ws[c].recv = <<"server:connected", "asst">>
        /\ c \in heap[ws[c].session].clients

\* C33: a get_session response reports the session's current status, carries
\* the result text only when the status is complete and a result is stored,
\* and the error text only when the status is error and an error is stored;
\* it never carries an error for a complete session nor a result for an
\* error session.
C33_ResponseFields ==
    resp.kind = "ok" =>
      LET s == heap[resp.session] IN
      /\ resp.status = s.status
      /\ resp.hasResult =>
           s.status = "complete" /\ s.hasResult /\ resp.result = s.result
      /\ resp.hasError =>
           s.status = "error" /\ s.hasError /\ resp.error = s.error
      /\ s.status = "complete" => ~resp.hasError
      /\ s.status = "error" => ~resp.hasResult

C33_Witness ==
    /\ resp.kind = "ok"
    /\ resp.status = "error"
    /\ resp.hasError
    /\ resp.error = Boom
    /\ ~resp.hasResult

\* C34: after one successful tunnel lookup every later getNgrokUrl call is
\* served from the cache, without a new lookup (clearNgrokCache is never
\* called by the program).  A registered or once registered session shows
\* that a lookup has succeeded.
LookupSucceeded == \E j \in Calls : heap[j].status # "none"

IsLookupBegin(k) == pc[k] # "await" /\ pc'[k] = "await"

C34_ServedFromCache ==
    [][\A k \in Calls :
         (IsLookupBegin(k) /\ LookupSucceeded) => call'[k].cached # NullUrl
      ]_vars

\* C35: polling is read-only: a get_session call changes no session's log,
\* status, result, error or subscriber set, and two polls in a row with the
\* same fromIndex on the same session return the same events.
IsPoll == resp'.kind # "none" /\ resp'.kind # "kill"

C35_PollingReadOnly ==
    [][IsPoll =>
         /\ UNCHANGED <<heap, sessions, ws, bcast, proc, emitted>>
         /\ (/\ resp.kind = "ok" /\ resp'.kind = "ok"
             /\ resp'.session = resp.session
             /\ resp'.fromIndex = resp.fromIndex) =>
               resp'.events = resp.events
      ]_vars

C35_Witness ==
    /\ resp.kind = "ok"
    /\ resp.events # <<>>
    /\ heap[resp.session].events = resp.emitted
    /\ Len(resp.emitted) = resp.totalEvents

\* C36: sessions are isolated: when the process of session A exits or the
\* timeout timer of session A fires, no other session B changes its status,
\* log, result, error or subscriber set, and no subscriber of another
\* session is sent anything.
C36_SessionsIsolated ==
    [][\A a \in Calls :
         (IsExit(a) \/ IsTimeout(a)) =>
           /\ \A b \in Calls \ {a} : heap'[b] = heap[b]
           /\ \A c \in Clients : ws[c].session # a => ws'[c].recv = ws[c].recv
      ]_vars

\* C37: a session's stored error text and its status agree in every
\* reachable state: the error text is set iff the status is error.
C37_ErrorTextIffError ==
    \A o \in Calls :
        heap[o].status # "none" =>
            (heap[o].hasError <=> heap[o].status = "error")

\* C38: once a session's process has ended, the session eventually has a
\* terminal status or is no longer the one registered under its id, given
\* that the exit observer is eventually run.
StaysRegistered(k) == pc[k] = "done" /\ sessions[call[k].sessionId] = k

C38_ExitedSessionsTerminate ==
    \A k \in Calls :
        (proc[k].state = "dead" /\ StaysRegistered(k))
          ~> (heap[k].status \in Terminal \/ ~StaysRegistered(k))

C38_Witness ==
    \E k \in Calls :
        /\ proc[k].state = "exited"
        /\ StaysRegistered(k)
        /\ heap[k].status = "complete"
        /\ heap[k].events = <<>>
        /\ killRets[k] = <<>>
        /\ bcast[k] = <<"disconnected">>

\* C39: server notifications (connected, killed, disconnected, error) are
\* never appended to a session's event log: the log is exactly what the
\* stdout reader received for the session, and the replay a subscriber is
\* sent on joining holds no server notification.
Replayed(c) == SubSeq(ws[c].recv, 2, ws[c].joined + 1)

C39_NotificationsNotLogged ==
    /\ \A o \in Calls :
         /\ heap[o].events = emitted[o]
         /\ \A n \in DOMAIN heap[o].events : heap[o].events[n].type # "server"
    /\ \A c \in Clients :
         ws[c].session # 0 =>
           \A n \in DOMAIN Replayed(c) : IsRawMessage(Replayed(c)[n])

C39_Witness ==
    \E o \in Calls, c \in Clients :
        /\ heap[o].status \in Terminal
        /\ bcast[o] = <<"disconnected">>
        /\ heap[o].events = <<>>
        /\ ws[c].session = o
        /\ ws[c].state = "open"
        /\ ws[c].recv = <<"server:connected">>

\* C40: shutdown leaves no process of an earlier spawnSession call running
\* and unsignalled, including a call that was suspended at the tunnel
\* lookup when shutdown ran: the step after shutdown does not give such a
\* call a live process that has been sent no signal.
C40_NoProcessEscapesShutdown ==
    [][\A k \in Calls :
         (console = "shutting down" /\ pc[k] = "await") =>
            ~(proc'[k].state = "alive" /\ proc'[k].signals = <<>>)
      ]_vars

====
